---- MODULE Spec2Model ----
(***************************************************************************)
(* The Twilio <-> ElevenLabs media-stream bridge of                        *)
(* backend/agent_calls/make_call.py: one media_stream session with its     *)
(* three gathered tasks (twilio_to_elevenlabs, elevenlabs_to_twilio,       *)
(* hangup_watcher), the delayed_suppress tasks it spawns, the process-wide *)
(* CALL_CONTEXT store and the two database helpers the bridge calls.       *)
(*                                                                         *)
(* Every `await` on a socket read is a step of its own; a handler runs     *)
(* from the message it received to the next read.  Everything the bridge   *)
(* sends or calls is appended to `trace` in the order it happens.          *)
(***************************************************************************)
EXTENDS Naturals, Sequences, FiniteSets, TLC

VARIABLES
    CALL_CONTEXT,          \* make_call.py:44, call id -> dict of variables
    referrals,             \* supabase table "referrals": patient_name -> scheduled_date
    flags,                 \* supabase table "flags": titles of the rows inserted
    ws_state,              \* the carrier WebSocket: "open" | "disconnected" | "closed"
    el_state,              \* elevenlabs_ws: "open" | "closed"
    stream_sid,            \* make_call.py:225
    call_sid,              \* make_call.py:226
    stream_ready,          \* make_call.py:227, asyncio.Event
    hangup_after_audio,    \* make_call.py:212, asyncio.Event
    suppress_agent_audio,  \* make_call.py:213, the flag elevenlabs_to_twilio reads
    pc_ms,                 \* media_stream itself
    pc_t2e,                \* task twilio_to_elevenlabs
    pc_e2t,                \* task elevenlabs_to_twilio
    pc_hw,                 \* task hangup_watcher
    timers,                \* the delayed_suppress tasks created so far
    nrecv,                 \* frames received so far, both channels, dropped ones aside
    trace,                 \* everything sent or called, in order
    pc_mc,                 \* make_call (make_call.py:140): where the request is
    req,                   \* make_call.py:140, the CallRequest being served
    call,                  \* make_call.py:143, call.sid of the call the provider accepted
    calls,                 \* twilio_client.calls: the sids of the calls the provider created
    responses,             \* what make_call returned, request by request
    call_attempts,         \* table of call attempts: id -> row (webhooks.py:88, 141)
    appointments,          \* table of appointments: id -> row (webhooks.py:179)
    background_tasks,      \* webhooks.py:96, the process_call_outcome tasks not yet run
    clock,                 \* datetime.utcnow() (webhooks.py:137)
    deliveries,            \* the webhook requests served so far, with their effects
    peer_call_sid,         \* call_sid (line 226) of the media_stream session of a second call
    peer_stream_ready,     \* stream_ready (line 227) of that session
    peer_nrecv             \* frames that session has received

vars == <<CALL_CONTEXT, referrals, flags, ws_state, el_state, stream_sid, call_sid,
          stream_ready, hangup_after_audio, suppress_agent_audio,
          pc_ms, pc_t2e, pc_e2t, pc_hw, timers, nrecv, trace,
          pc_mc, req, call, calls, responses,
          call_attempts, appointments, background_tasks, clock, deliveries,
          peer_call_sid, peer_stream_ready, peer_nrecv>>

\* The variables of make_call, and those of the webhooks router.
make_call_vars == <<pc_mc, req, call, calls, responses>>
webhook_vars   == <<call_attempts, appointments, background_tasks, clock, deliveries>>

\* The variables of the media_stream session of a second call.
peer_vars == <<peer_call_sid, peer_stream_ready, peer_nrecv>>

\* Frames a session receives, carrier and agent together, the end of either
\* connection counted as one, the frames dropped without any effect not counted.
MaxFrames == 3

----------------------------------------------------------------------------
(* Python values                                                           *)

\* Python's None, where a string is expected (callSid, track, streamSid).
None == "<None>"

EmptyDict == [k \in {} |-> ""]

\* A Python value: a tag, and the field the tag uses.  d is the dict of a
\* "dict" value (the agent_result payload).
PyVal(t, n, s, d) == [t |-> t, n |-> n, s |-> s, d |-> d]
PyNone    == PyVal("none", 0, "", EmptyDict)
PyStrOf(s) == PyVal("str", 0, s, EmptyDict)
PyInt(n)  == PyVal("int", n, "", EmptyDict)
PyBool(b) == PyVal("bool", IF b THEN 1 ELSE 0, "", EmptyDict)
PyDict(d) == PyVal("dict", 0, "", d)

\* bool(v)
Truthy(v) ==
    CASE v.t = "none" -> FALSE
      [] v.t = "str"  -> v.s # ""
      [] v.t = "int"  -> v.n # 0
      [] v.t = "bool" -> v.n = 1
      [] v.t = "dict" -> DOMAIN v.d # {}

\* bool(s) of a str-or-None
TruthyStr(s) == s # None /\ s # ""

\* dict.get(k), default None
DictGet(d, k) == IF k \in DOMAIN d THEN d[k] ELSE PyNone

DigitStr(n) ==
    CASE n = 0 -> "0" [] n = 1 -> "1" [] n = 2 -> "2" [] n = 3 -> "3" [] n = 4 -> "4"
      [] n = 5 -> "5" [] n = 6 -> "6" [] n = 7 -> "7" [] n = 8 -> "8" [] n = 9 -> "9"

RECURSIVE IntStr(_)
IntStr(n) == IF n < 10 THEN DigitStr(n) ELSE IntStr(n \div 10) \o DigitStr(n % 10)

\* repr() of a scalar inside a dict
PyRepr(v) ==
    CASE v.t = "none" -> "None"
      [] v.t = "str"  -> "'" \o v.s \o "'"
      [] v.t = "int"  -> IntStr(v.n)
      [] v.t = "bool" -> IF v.n = 1 THEN "True" ELSE "False"
      [] v.t = "dict" -> "{...}"

\* The payload's keys in the order lines 322, 327, 332 insert them.
PayloadKeys == <<"Rescheduled", "name", "scheduled_date">>

RECURSIVE DictItemsStr(_, _, _)
DictItemsStr(d, i, first) ==
    IF i > Len(PayloadKeys) THEN ""
    ELSE IF PayloadKeys[i] \in DOMAIN d
         THEN (IF first THEN "" ELSE ", ")
                 \o "'" \o PayloadKeys[i] \o "': " \o PyRepr(d[PayloadKeys[i]])
                 \o DictItemsStr(d, i + 1, FALSE)
         ELSE DictItemsStr(d, i + 1, first)

\* str(v), the coercion of line 250
PyStr(v) ==
    CASE v.t = "none" -> "None"
      [] v.t = "str"  -> v.s
      [] v.t = "int"  -> IntStr(v.n)
      [] v.t = "bool" -> IF v.n = 1 THEN "True" ELSE "False"
      [] v.t = "dict" -> "{" \o DictItemsStr(v.d, 1, TRUE) \o "}"

----------------------------------------------------------------------------
(* Agent utterances and the regular expressions of lines 314-332           *)

\* An utterance is its sequence of tokens: a double-quoted string "v"
\* (q = TRUE), or a bare word or punctuation mark v (q = FALSE).  White space
\* between tokens is not kept: every pattern below allows \s* there.
Quoted(v) == [q |-> TRUE, v |-> v]
Bare(v)   == [q |-> FALSE, v |-> v]
Colon     == Bare(":")

\* str.lower() on the words that occur
Lower(v) ==
    CASE v = "Rescheduled" -> "rescheduled"
      [] v = "RESCHEDULED" -> "rescheduled"
      [] v = "True"        -> "true"
      [] v = "TRUE"        -> "true"
      [] v = "False"       -> "false"
      [] v = "FALSE"       -> "false"
      [] OTHER             -> v

\* "Rescheduled" in text (line 314): case-sensitive, quoted or not
ContainsRescheduled(text) ==
    \E i \in 1..Len(text) : text[i].v = "Rescheduled"

\* r'"Rescheduled"\s*:\s*(true|false)' with re.IGNORECASE (line 320)
RescheduledAt(text, i) ==
    /\ i + 2 <= Len(text)
    /\ text[i].q /\ Lower(text[i].v) = "rescheduled"
    /\ text[i + 1] = Colon
    /\ ~text[i + 2].q /\ Lower(text[i + 2].v) \in {"true", "false"}

\* r'"name"\s*:\s*"([^"]+)"' (line 325)
NameAt(text, i) ==
    /\ i + 2 <= Len(text)
    /\ text[i].q /\ text[i].v = "name"
    /\ text[i + 1] = Colon
    /\ text[i + 2].q /\ text[i + 2].v # ""

\* r'"scheduled_date"\s*:\s*"([^"]+)"' (line 330)
DateAt(text, i) ==
    /\ i + 2 <= Len(text)
    /\ text[i].q /\ text[i].v = "scheduled_date"
    /\ text[i + 1] = Colon
    /\ text[i + 2].q /\ text[i + 2].v # ""

\* The pattern compiled for a payload key, at position i of the text.
PatternAt(key, text, i) ==
    CASE key = "Rescheduled"    -> RescheduledAt(text, i)
      [] key = "name"           -> NameAt(text, i)
      [] key = "scheduled_date" -> DateAt(text, i)

\* re.search: the leftmost position at which the pattern of `key` matches,
\* 0 when there is none.
FirstMatch(key, text) ==
    IF \E i \in 1..Len(text) : PatternAt(key, text, i)
    THEN CHOOSE i \in 1..Len(text) :
            PatternAt(key, text, i) /\ \A j \in 1..(i - 1) : ~PatternAt(key, text, j)
    ELSE 0

\* RescheduledValue without .lower(): only a lower-case "true" counts.
RescheduledValueCaseSensitive(group1) == group1 = "true"

\* lines 320-322: the value stored under "Rescheduled"
RescheduledValue(group1) == Lower(group1) = "true"

\* lines 317-332: the payload extracted from an utterance
ExtractPayload(text) ==
    LET r == FirstMatch("Rescheduled", text)
        n == FirstMatch("name", text)
        d == FirstMatch("scheduled_date", text)
        keys == (IF r > 0 THEN {"Rescheduled"} ELSE {})
                  \cup (IF n > 0 THEN {"name"} ELSE {})
                  \cup (IF d > 0 THEN {"scheduled_date"} ELSE {})
    IN  [k \in keys |->
            CASE k = "Rescheduled"    -> PyBool(RescheduledValue(text[r + 2].v))
              [] k = "name"           -> PyStrOf(text[n + 2].v)
              [] k = "scheduled_date" -> PyStrOf(text[d + 2].v)]

\* OutcomeBranch with the test of line 339 inverted: a declined outcome goes
\* to the reschedule branches, an accepted one to the flag.
OutcomeBranchInverted(payload) ==
    IF Truthy(DictGet(payload, "Rescheduled"))
    THEN (IF "name" \in DOMAIN payload THEN "flag" ELSE "keyerror")
    ELSE IF Truthy(DictGet(payload, "name")) /\ Truthy(DictGet(payload, "scheduled_date"))
         THEN "reschedule"
         ELSE "incomplete"

\* OutcomeBranch with `or` for the `and` of line 342: one of name and
\* scheduled_date is enough to reschedule.
OutcomeBranchEitherField(payload) ==
    IF ~Truthy(DictGet(payload, "Rescheduled"))
    THEN (IF "name" \in DOMAIN payload THEN "flag" ELSE "keyerror")
    ELSE IF Truthy(DictGet(payload, "name")) \/ Truthy(DictGet(payload, "scheduled_date"))
         THEN "reschedule"
         ELSE "incomplete"

\* lines 339-346: what the bridge does with a payload
\*   "flag"       create_flagged_entry(payload["name"])
\*   "keyerror"   payload["name"] raises KeyError inside that call
\*   "reschedule" update_scheduled_date(name, scheduled_date)
\*   "incomplete" only printed
OutcomeBranch(payload) ==
    IF ~Truthy(DictGet(payload, "Rescheduled"))
    THEN (IF "name" \in DOMAIN payload THEN "flag" ELSE "keyerror")
    ELSE IF Truthy(DictGet(payload, "name")) /\ Truthy(DictGet(payload, "scheduled_date"))
         THEN "reschedule"
         ELSE "incomplete"

----------------------------------------------------------------------------
(* The inputs of a session                                                 *)

Names == {"Jane Doe", "Parth Joshi"}
Date1 == "2026-02-07 11:00:00+00:00"
Date0 == "2026-01-10 09:00:00+00:00"

\* '{"Rescheduled": <b>, "name": "<n>", "scheduled_date": "<d>"}'
UComplete(b, n, d) ==
    <<Bare("{"), Quoted("Rescheduled"), Colon, Bare(b), Bare(","),
      Quoted("name"), Colon, Quoted(n), Bare(","),
      Quoted("scheduled_date"), Colon, Quoted(d), Bare("}")>>
\* '{"Rescheduled": <b>, "name": "<n>"}'
UNameOnly(b, n) ==
    <<Bare("{"), Quoted("Rescheduled"), Colon, Bare(b), Bare(","),
      Quoted("name"), Colon, Quoted(n), Bare("}")>>
\* '{"Rescheduled": <b>, "scheduled_date": "<d>"}'
UDateOnly(b, d) ==
    <<Bare("{"), Quoted("Rescheduled"), Colon, Bare(b), Bare(","),
      Quoted("scheduled_date"), Colon, Quoted(d), Bare("}")>>
\* 'I have Rescheduled you': the word, none of the fields
UProse == <<Bare("I"), Bare("have"), Bare("Rescheduled"), Bare("you")>>
\* 'Hello': ordinary speech
USpeech == <<Bare("Hello")>>
\* '{"rescheduled": true, ...}': the key in lower case
ULowerKey ==
    <<Bare("{"), Quoted("rescheduled"), Colon, Bare("true"), Bare(","),
      Quoted("name"), Colon, Quoted("Jane Doe"), Bare(","),
      Quoted("scheduled_date"), Colon, Quoted(Date1), Bare("}")>>

Utterances ==
    { UComplete("true", "Jane Doe", Date1),
      UComplete("TRUE", "Parth Joshi", Date1),
      UNameOnly("false", "Jane Doe"),
      UNameOnly("true", "Jane Doe"),
      UDateOnly("true", Date1),
      UProse, USpeech, ULowerKey }

\* <<streamSid, callSid>> of the start frames: a call make_call stored, a call
\* it did not, and a start frame without callSid.
Starts     == {<<"MZ1", "CA1">>, <<"MZ2", "CA2">>, <<"MZ1", None>>}
Tracks     == {None, "inbound", "outbound"}
EventIds   == {"1", "2"}

\* A text frame of the carrier's media stream (json = FALSE: not JSON).
CarrierFrame(json, event, ssid, csid, track, payload) ==
    [json |-> json, event |-> event, streamSid |-> ssid, callSid |-> csid,
     track |-> track, payload |-> payload]

CarrierFrames ==
    { CarrierFrame(TRUE, "start", st[1], st[2], None, "") : st \in Starts }
    \cup { CarrierFrame(TRUE, "media", None, None, t, "caller-audio") : t \in Tracks }
    \cup { CarrierFrame(TRUE, "stop", None, None, None, ""),
           CarrierFrame(TRUE, "connected", None, None, None, ""),
           CarrierFrame(FALSE, "", None, None, None, "") }

\* A message of the agent session (bytes = TRUE: a binary message;
\* json = FALSE: text that is not JSON).
AgentMsg(bytes, json, type, arg, text) ==
    [bytes |-> bytes, json |-> json, type |-> type, arg |-> arg, text |-> text]

AgentMsgs ==
    { AgentMsg(FALSE, TRUE, "agent_response", "", u) : u \in Utterances }
    \cup { AgentMsg(FALSE, TRUE, "ping", e, <<>>) : e \in EventIds }
    \cup { AgentMsg(FALSE, TRUE, "audio", "agent-audio", <<>>),
           AgentMsg(FALSE, TRUE, "interruption", "", <<>>),
           AgentMsg(FALSE, TRUE, "conversation_initiation_metadata", "", <<>>),
           AgentMsg(FALSE, TRUE, "user_transcript", "", <<>>),
           AgentMsg(TRUE, FALSE, "", "", <<>>),
           AgentMsg(FALSE, FALSE, "", "", <<>>) }

\* A CallRequest (lines 46-48)
CallRequest(phone_number, dynamic_variables) ==
    [phone_number |-> phone_number, dynamic_variables |-> dynamic_variables]

NoRequest == CallRequest("", EmptyDict)

\* The dynamic variables of the requests: with a specialist type, without
\* one, and with one that is no string.
DynamicVariableSets ==
    { ("specialist_type" :> PyStrOf("Cardiology")) @@ ("attempt" :> PyInt(12)),
      ("patient_name" :> PyStrOf("Jane Doe")),
      ("specialist_type" :> PyInt(12)) }

CallRequests == { CallRequest("+15550100", d) : d \in DynamicVariableSets }

\* What the query of get_scheduled_dates (lines 113-115) meets: rows with a
\* date, rows without any, no row, an exception of the client.
Lookups == {"rows", "undated", "empty", "raises"}

\* What get_scheduled_dates returns: a list of dates (line 128), False
\* (line 132) or the error dict (line 136).
Returned(kind, dates, error) == [kind |-> kind, dates |-> dates, error |-> error]

\* lines 101-136.  specialist_type.upper() raises on a value that is no
\* string, inside the try, like the query.
get_scheduled_dates(specialist_type, lookup) ==
    IF specialist_type.t # "str"
    THEN Returned("error", <<>>, "'int' object has no attribute 'upper'")
    ELSE CASE lookup = "rows"    -> Returned("list", <<Date0>>, "")
           [] lookup = "undated" -> Returned("list", <<>>, "")
           [] lookup = "empty"   -> Returned("false", <<>>, "")
           [] OTHER              -> Returned("error", <<>>, "timed out")

\* json.dumps of a list of strings, from its i-th element on
RECURSIVE JsonItems(_, _)
JsonItems(dates, i) ==
    IF i > Len(dates) THEN ""
    ELSE (IF i > 1 THEN ", " ELSE "") \o "\"" \o dates[i] \o "\""
         \o JsonItems(dates, i + 1)

\* line 152: json.dumps(times)
JsonDumps(v) ==
    CASE v.kind = "list"  -> "[" \o JsonItems(v.dates, 1) \o "]"
      [] v.kind = "false" -> "false"
      [] OTHER -> "{\"success\": false, \"error\": \"" \o v.error \o "\"}"

\* line 152: the variables with unavailable_times set
Enriched(dynamic_variables, v) ==
    [k \in DOMAIN dynamic_variables \cup {"unavailable_times"} |->
        IF k = "unavailable_times" THEN PyStrOf(JsonDumps(v))
        ELSE dynamic_variables[k]]

\* What make_call leaves under a call id (lines 150-154).
ContextCA1 ==
    Enriched(("specialist_type" :> PyStrOf("Cardiology")) @@ ("attempt" :> PyInt(12)),
             get_scheduled_dates(PyStrOf("Cardiology"), "empty"))

InitialStore == "CA1" :> ContextCA1

----------------------------------------------------------------------------
(* The trace                                                               *)

\* One thing the bridge did: a frame sent to the carrier ("media", "clear"),
\* a message sent to the agent ("user_audio_chunk",
\* "conversation_initiation_client_data", "pong", "end_call"), the agent
\* socket closed by end_elevenlabs ("close"), the provider asked to complete
\* the call ("calls.update"), or a database helper called
\* ("update_scheduled_date", "create_flagged_entry").  `by` is the task.
Event(ev, by, sid, a, b, dyn) ==
    [ev |-> ev, by |-> by, sid |-> sid, a |-> a, b |-> b, dyn |-> dyn]

EventsOf(ev) == SelectSeq(trace, LAMBDA e : e.ev = ev)
Count(ev) == Len(EventsOf(ev))

----------------------------------------------------------------------------
(* The database helpers                                                    *)

\* update_scheduled_date (lines 175-202): the referrals table afterwards.
\* up = FALSE: the supabase call raises, which the helper catches.
UpdateScheduledDate(tbl, patient_name, new_scheduled_date, up) ==
    IF up /\ patient_name \in DOMAIN tbl
    THEN [tbl EXCEPT ![patient_name] = new_scheduled_date]
    ELSE tbl

\* create_flagged_entry (lines 54-98): the flags table afterwards.
CreateFlaggedEntry(tbl, fl, name, up) ==
    IF up /\ name \in DOMAIN tbl
    THEN Append(fl, "Flagged: " \o name)
    ELSE fl

\* line 156
MakeCallSuccess(sid) == [success |-> TRUE, call_sid |-> sid, error |-> ""]

\* MakeCallFailure reporting success.
MakeCallFailureAsSuccess(e) == [success |-> TRUE, call_sid |-> None, error |-> e]

\* line 158
MakeCallFailure(e) == [success |-> FALSE, call_sid |-> None, error |-> e]

\* No second call: its media stream is not connected (before line 210).
InitPeer ==
    /\ peer_call_sid = None
    /\ peer_stream_ready = FALSE
    /\ peer_nrecv = 0

\* The webhooks router before any request.
InitWebhook ==
    /\ call_attempts = <<>>
    /\ appointments = <<>>
    /\ background_tasks = <<>>
    /\ clock = 0
    /\ deliveries = <<>>

----------------------------------------------------------------------------
(* Initial state: media_stream has accepted the carrier socket, connected   *)
(* the agent session and started its three tasks (lines 210-227, 397)      *)

Init ==
    /\ CALL_CONTEXT = InitialStore
    /\ referrals = ("Jane Doe" :> Date0)
    /\ flags = <<>>
    /\ ws_state = "open"
    /\ el_state = "open"
    /\ stream_sid = None
    /\ call_sid = None
    /\ stream_ready = FALSE
    /\ hangup_after_audio = FALSE
    /\ suppress_agent_audio = FALSE
    /\ pc_ms = "gather"
    /\ pc_t2e = "run"
    /\ pc_e2t = "run"
    /\ pc_hw = "wait"
    /\ timers = <<>>
    /\ nrecv = 0
    /\ trace = <<>>
    /\ pc_mc = "idle" /\ req = NoRequest /\ call = None
    /\ calls = {"CA1"}
    /\ responses = <<MakeCallSuccess("CA1")>>
    /\ InitWebhook
    /\ InitPeer

----------------------------------------------------------------------------
(* twilio_to_elevenlabs (lines 230-258)                                    *)

\* line 234 returns a frame
T2EReceives ==
    /\ pc_t2e = "run"
    /\ ws_state = "open"
    /\ nrecv < MaxFrames

\* ForwardsTrack with the filter of line 237 lost: every track is forwarded.
ForwardsTrackAll(track) == TRUE

\* line 237: the tracks whose audio goes to the agent
ForwardsTrack(track) == track \in {None, "inbound"}

\* lines 236-239
TwilioMedia(f) ==
    /\ T2EReceives
    /\ f.json /\ f.event = "media"
    /\ IF ~ForwardsTrack(f.track)
       THEN UNCHANGED <<pc_t2e, trace, nrecv>>
       ELSE /\ nrecv' = nrecv + 1
            /\ IF el_state = "open"
               THEN /\ trace' = Append(trace,
                           Event("user_audio_chunk", "t2e", None, f.payload, "", EmptyDict))
                    /\ UNCHANGED pc_t2e
               ELSE /\ pc_t2e' = "raised"       \* ConnectionClosed, not caught at 257
                    /\ UNCHANGED trace
    /\ UNCHANGED <<CALL_CONTEXT, referrals, flags, ws_state, el_state, stream_sid,
                   call_sid, stream_ready, hangup_after_audio, suppress_agent_audio,
                   pc_ms, pc_e2t, pc_hw, timers>>
    /\ UNCHANGED <<make_call_vars, webhook_vars, peer_vars>>

\* line 247: CALL_CONTEXT.get(call_sid, {})
ContextOf(store, sid) == IF sid \in DOMAIN store THEN store[sid] ELSE EmptyDict

\* DynamicVariables without str(): a value that is no string is sent empty.
DynamicVariablesRaw(dyn) == [k \in DOMAIN dyn |-> dyn[k].s]

\* line 250: {k: str(v) for k, v in dyn.items()}
DynamicVariables(dyn) == [k \in DOMAIN dyn |-> PyStr(dyn[k])]

\* lines 240-251
TwilioStart(f) ==
    /\ T2EReceives
    /\ f.json /\ f.event = "start"
    /\ stream_sid' = f.streamSid
    /\ call_sid' = f.callSid
    /\ stream_ready' = TRUE
    /\ nrecv' = nrecv + 1
    /\ IF el_state = "open"
       THEN /\ trace' = Append(trace,
                   Event("conversation_initiation_client_data", "t2e", None, "", "",
                         DynamicVariables(ContextOf(CALL_CONTEXT, f.callSid))))
            /\ UNCHANGED pc_t2e
       ELSE /\ pc_t2e' = "raised"               \* ConnectionClosed, not caught at 257
            /\ UNCHANGED trace
    /\ UNCHANGED <<CALL_CONTEXT, referrals, flags, ws_state, el_state,
                   hangup_after_audio, suppress_agent_audio,
                   pc_ms, pc_e2t, pc_hw, timers>>
    /\ UNCHANGED <<make_call_vars, webhook_vars, peer_vars>>

\* lines 253-255
TwilioStop(f) ==
    /\ T2EReceives
    /\ f.json /\ f.event = "stop"
    /\ pc_t2e' = "done"
    /\ nrecv' = nrecv + 1
    /\ UNCHANGED <<CALL_CONTEXT, referrals, flags, ws_state, el_state, stream_sid,
                   call_sid, stream_ready, hangup_after_audio, suppress_agent_audio,
                   pc_ms, pc_e2t, pc_hw, timers, trace>>
    /\ UNCHANGED <<make_call_vars, webhook_vars, peer_vars>>

\* lines 236-253: an event none of the branches names
TwilioOther(f) ==
    /\ T2EReceives
    /\ f.json /\ f.event \notin {"media", "start", "stop"}
    /\ UNCHANGED <<CALL_CONTEXT, referrals, flags, ws_state, el_state, stream_sid,
                   call_sid, stream_ready, hangup_after_audio, suppress_agent_audio,
                   pc_ms, pc_t2e, pc_e2t, pc_hw, timers, nrecv, trace>>
    /\ UNCHANGED <<make_call_vars, webhook_vars, peer_vars>>

\* line 235: json.loads raises; line 257 catches WebSocketDisconnect only
TwilioNotJson(f) ==
    /\ T2EReceives
    /\ ~f.json
    /\ pc_t2e' = "raised"
    /\ nrecv' = nrecv + 1
    /\ UNCHANGED <<CALL_CONTEXT, referrals, flags, ws_state, el_state, stream_sid,
                   call_sid, stream_ready, hangup_after_audio, suppress_agent_audio,
                   pc_ms, pc_e2t, pc_hw, timers, trace>>
    /\ UNCHANGED <<make_call_vars, webhook_vars, peer_vars>>

\* The carrier drops the connection; receive_text (line 234), where the task
\* waits, raises WebSocketDisconnect, which line 257 catches.
CarrierDisconnects ==
    /\ ws_state = "open"
    /\ nrecv < MaxFrames
    /\ nrecv' = nrecv + 1
    /\ ws_state' = "disconnected"
    /\ pc_t2e' = IF pc_t2e = "run" THEN "done" ELSE pc_t2e
    /\ UNCHANGED <<CALL_CONTEXT, referrals, flags, el_state, stream_sid, call_sid,
                   stream_ready, hangup_after_audio, suppress_agent_audio,
                   pc_ms, pc_e2t, pc_hw, timers, trace>>
    /\ UNCHANGED <<make_call_vars, webhook_vars, peer_vars>>

\* lines 234, 257-258: receive_text on the socket media_stream has closed
TwilioDisconnected ==
    /\ pc_t2e = "run"
    /\ ws_state # "open"
    /\ pc_t2e' = "done"
    /\ UNCHANGED <<CALL_CONTEXT, referrals, flags, ws_state, el_state, stream_sid,
                   call_sid, stream_ready, hangup_after_audio, suppress_agent_audio,
                   pc_ms, pc_e2t, pc_hw, timers, nrecv, trace>>
    /\ UNCHANGED <<make_call_vars, webhook_vars, peer_vars>>

----------------------------------------------------------------------------
(* elevenlabs_to_twilio (lines 260-367)                                    *)

\* E2TReceives without the wait of line 262.
E2TReceivesUngated ==
    /\ pc_e2t = "run"
    /\ el_state = "open"
    /\ nrecv < MaxFrames

\* lines 262, 266: the gate is open and recv returns a message
E2TReceives ==
    /\ pc_e2t = "run"
    /\ stream_ready
    /\ el_state = "open"
    /\ nrecv < MaxFrames

\* lines 267-270 (bytes), 275-279 (metadata), and a type no branch names
AgentIgnored(m) ==
    /\ E2TReceives
    /\ \/ m.bytes
       \/ ~m.bytes /\ m.json
            /\ m.type \notin {"audio", "ping", "interruption", "agent_response"}
    /\ UNCHANGED <<CALL_CONTEXT, referrals, flags, ws_state, el_state, stream_sid,
                   call_sid, stream_ready, hangup_after_audio, suppress_agent_audio,
                   pc_ms, pc_t2e, pc_e2t, pc_hw, timers, nrecv, trace>>
    /\ UNCHANGED <<make_call_vars, webhook_vars, peer_vars>>

\* line 272: json.loads raises; line 366 catches ConnectionClosed only
AgentNotJson(m) ==
    /\ E2TReceives
    /\ ~m.bytes /\ ~m.json
    /\ pc_e2t' = "raised"
    /\ nrecv' = nrecv + 1
    /\ UNCHANGED <<CALL_CONTEXT, referrals, flags, ws_state, el_state, stream_sid,
                   call_sid, stream_ready, hangup_after_audio, suppress_agent_audio,
                   pc_ms, pc_t2e, pc_hw, timers, trace>>
    /\ UNCHANGED <<make_call_vars, webhook_vars, peer_vars>>

\* DropsAudio suppressing from the detection on: audio is dropped as soon as
\* a delayed_suppress task exists.
DropsAudioOnceArmed(flag) == flag \/ timers # <<>>

\* line 284: whether an audio event is dropped
DropsAudio(flag) == flag

\* lines 281-293
AgentAudio(m) ==
    /\ E2TReceives
    /\ ~m.bytes /\ m.json /\ m.type = "audio"
    /\ IF DropsAudio(suppress_agent_audio)
       THEN UNCHANGED <<pc_e2t, trace, nrecv>>
       ELSE /\ nrecv' = nrecv + 1
            /\ IF ws_state = "open"
               THEN /\ trace' = Append(trace,
                           Event("media", "e2t", stream_sid, m.arg, "", EmptyDict))
                    /\ UNCHANGED pc_e2t
               ELSE /\ pc_e2t' = "raised"       \* send_text raises, not caught at 366
                    /\ UNCHANGED trace
    /\ UNCHANGED <<CALL_CONTEXT, referrals, flags, ws_state, el_state, stream_sid,
                   call_sid, stream_ready, hangup_after_audio, suppress_agent_audio,
                   pc_ms, pc_t2e, pc_hw, timers>>
    /\ UNCHANGED <<make_call_vars, webhook_vars, peer_vars>>

\* Pong with a fixed event id instead of the ping's.
PongFixedId(event_id) == Event("pong", "e2t", None, "1", "", EmptyDict)

\* lines 297-301: the reply to a ping
Pong(event_id) == Event("pong", "e2t", None, event_id, "", EmptyDict)

\* lines 295-301
AgentPing(m) ==
    /\ E2TReceives
    /\ ~m.bytes /\ m.json /\ m.type = "ping"
    /\ trace' = Append(trace, Pong(m.arg))
    /\ nrecv' = nrecv + 1
    /\ UNCHANGED <<CALL_CONTEXT, referrals, flags, ws_state, el_state, stream_sid,
                   call_sid, stream_ready, hangup_after_audio, suppress_agent_audio,
                   pc_ms, pc_t2e, pc_e2t, pc_hw, timers>>
    /\ UNCHANGED <<make_call_vars, webhook_vars, peer_vars>>

\* InterruptionClear without the streamSid.
InterruptionClearUnaddressed(sid) == Event("clear", "e2t", None, "", "", EmptyDict)

\* lines 304-307: the clear frame of an interruption
InterruptionClear(sid) == Event("clear", "e2t", sid, "", "", EmptyDict)

\* lines 303-307
AgentInterruption(m) ==
    /\ E2TReceives
    /\ ~m.bytes /\ m.json /\ m.type = "interruption"
    /\ nrecv' = nrecv + 1
    /\ IF ws_state = "open"
       THEN /\ trace' = Append(trace, InterruptionClear(stream_sid))
            /\ UNCHANGED pc_e2t
       ELSE /\ pc_e2t' = "raised"
            /\ UNCHANGED trace
    /\ UNCHANGED <<CALL_CONTEXT, referrals, flags, ws_state, el_state, stream_sid,
                   call_sid, stream_ready, hangup_after_audio, suppress_agent_audio,
                   pc_ms, pc_t2e, pc_hw, timers>>
    /\ UNCHANGED <<make_call_vars, webhook_vars, peer_vars>>

\* line 314: whether an utterance is taken for an outcome
OutcomeDetected(text) == ContainsRescheduled(text)

\* lines 335-336: setdefault, then the agent_result key
SaveAgentResult(store, sid, payload) ==
    LET old == ContextOf(store, sid)
        new == [k \in DOMAIN old \cup {"agent_result"} |->
                   IF k = "agent_result" THEN PyDict(payload) ELSE old[k]]
    IN  [c \in DOMAIN store \cup {sid} |-> IF c = sid THEN new ELSE store[c]]

\* The delayed_suppress tasks a session can come to create, in the order of
\* their creation: fewer than the frames it receives.
TimerIds == 1..MaxFrames

\* lines 349, 364: a delayed_suppress task, asleep, with its own flag unset
NewTimer == [pc |-> "sleep", suppress_agent_audio |-> FALSE]

\* lines 309-364.  up: whether the supabase call of the helper goes through.
AgentResponse(m, up) ==
    /\ E2TReceives
    /\ ~m.bytes /\ m.json /\ m.type = "agent_response"
    /\ IF ~OutcomeDetected(m.text)
       THEN UNCHANGED <<CALL_CONTEXT, referrals, flags, pc_e2t, timers, trace, nrecv>>
       ELSE LET payload == ExtractPayload(m.text)
                branch  == OutcomeBranch(payload)
                name    == IF "name" \in DOMAIN payload THEN payload["name"].s ELSE ""
                date    == IF "scheduled_date" \in DOMAIN payload
                           THEN payload["scheduled_date"].s ELSE ""
            IN  /\ nrecv' = nrecv + 1
                /\ CALL_CONTEXT' = SaveAgentResult(CALL_CONTEXT, call_sid, payload)
                /\ CASE branch = "flag" ->
                          /\ flags' = CreateFlaggedEntry(referrals, flags, name, up)
                          /\ trace' = Append(trace,
                                Event("create_flagged_entry", "e2t", None, name, "", EmptyDict))
                          /\ UNCHANGED referrals
                     [] branch = "reschedule" ->
                          /\ referrals' = UpdateScheduledDate(referrals, name, date, up)
                          /\ trace' = Append(trace,
                                Event("update_scheduled_date", "e2t", None, name, date, EmptyDict))
                          /\ UNCHANGED flags
                     [] OTHER -> UNCHANGED <<referrals, flags, trace>>
                /\ IF branch = "keyerror"
                   THEN /\ pc_e2t' = "raised"   \* KeyError at 340, not caught at 366
                        /\ UNCHANGED timers
                   ELSE /\ timers' = Append(timers, NewTimer)
                        /\ UNCHANGED pc_e2t
    /\ UNCHANGED <<ws_state, el_state, stream_sid, call_sid, stream_ready,
                   hangup_after_audio, suppress_agent_audio, pc_ms, pc_t2e, pc_hw>>
    /\ UNCHANGED <<make_call_vars, webhook_vars, peer_vars>>

\* The agent ends the session; recv (line 266), if the task waits there,
\* raises ConnectionClosed, which line 366 catches.
ElevenLabsDisconnects ==
    /\ el_state = "open"
    /\ nrecv < MaxFrames
    /\ nrecv' = nrecv + 1
    /\ el_state' = "closed"
    /\ pc_e2t' = IF pc_e2t = "run" /\ stream_ready THEN "done" ELSE pc_e2t
    /\ UNCHANGED <<CALL_CONTEXT, referrals, flags, ws_state, stream_sid, call_sid,
                   stream_ready, hangup_after_audio, suppress_agent_audio,
                   pc_ms, pc_t2e, pc_hw, timers, trace>>
    /\ UNCHANGED <<make_call_vars, webhook_vars, peer_vars>>

\* lines 266, 366-367: recv on a session closed meanwhile raises ConnectionClosed
AgentConnectionClosed ==
    /\ pc_e2t = "run"
    /\ stream_ready
    /\ el_state = "closed"
    /\ pc_e2t' = "done"
    /\ UNCHANGED <<CALL_CONTEXT, referrals, flags, ws_state, el_state, stream_sid,
                   call_sid, stream_ready, hangup_after_audio, suppress_agent_audio,
                   pc_ms, pc_t2e, pc_hw, timers, nrecv, trace>>
    /\ UNCHANGED <<make_call_vars, webhook_vars, peer_vars>>

----------------------------------------------------------------------------
(* delayed_suppress (lines 349-362)                                        *)

\* line 351: the assignment has no nonlocal declaration in delayed_suppress,
\* so it binds a variable of delayed_suppress; the flag of media_stream that
\* elevenlabs_to_twilio reads keeps its value.
SuppressAssigned(flag) == flag

\* lines 350-358: the sleep ends, the flag is assigned, the clear is sent
DelayedSuppressFires(i) ==
    /\ i \in 1..Len(timers)
    /\ timers[i].pc = "sleep"
    /\ \A j \in 1..(i - 1) : timers[j].pc # "sleep"   \* equal delays: oldest first
    /\ suppress_agent_audio' = SuppressAssigned(suppress_agent_audio)
    /\ IF ~TruthyStr(stream_sid)
       THEN /\ timers' = [timers EXCEPT ![i] = [pc |-> "sent", suppress_agent_audio |-> TRUE]]
            /\ UNCHANGED trace
       ELSE IF ws_state = "open"
            THEN /\ timers' = [timers EXCEPT
                                  ![i] = [pc |-> "sent", suppress_agent_audio |-> TRUE]]
                 /\ trace' = Append(trace,
                        Event("clear", "delayed_suppress", stream_sid, "", "", EmptyDict))
            ELSE /\ timers' = [timers EXCEPT       \* send_text raises in the task
                                  ![i] = [pc |-> "raised", suppress_agent_audio |-> TRUE]]
                 /\ UNCHANGED trace
    /\ UNCHANGED <<CALL_CONTEXT, referrals, flags, ws_state, el_state, stream_sid,
                   call_sid, stream_ready, hangup_after_audio,
                   pc_ms, pc_t2e, pc_e2t, pc_hw, nrecv>>
    /\ UNCHANGED <<make_call_vars, webhook_vars, peer_vars>>

\* lines 360-362
DelayedSuppressReleases(i) ==
    /\ i \in 1..Len(timers)
    /\ timers[i].pc = "sent"
    /\ timers' = [timers EXCEPT ![i].pc = "done"]
    /\ hangup_after_audio' = TRUE
    /\ UNCHANGED <<CALL_CONTEXT, referrals, flags, ws_state, el_state, stream_sid,
                   call_sid, stream_ready, suppress_agent_audio,
                   pc_ms, pc_t2e, pc_e2t, pc_hw, nrecv, trace>>
    /\ UNCHANGED <<make_call_vars, webhook_vars, peer_vars>>

----------------------------------------------------------------------------
(* hangup_watcher and end_elevenlabs (lines 369-394)                       *)

\* EndCallSend without the try of line 370: the exception leaves the watcher.
EndCallSendUncaught(el) == IF el = "open" THEN "sent" ELSE "raised"

\* lines 370-374: the end_call message is sent, or the send raises on a
\* closed session and line 373 catches the exception
EndCallSend(el) == IF el = "open" THEN "sent" ELSE "caught"

\* lines 382-383, 370-374: both gates are open; end_call is sent
HangupSendsEndCall ==
    /\ pc_hw = "wait"
    /\ stream_ready /\ hangup_after_audio
    /\ pc_hw' = IF EndCallSend(el_state) = "raised" THEN "raised" ELSE "close"
    /\ trace' = IF EndCallSend(el_state) = "sent"
                THEN Append(trace, Event("end_call", "hangup_watcher", None, "", "", EmptyDict))
                ELSE trace
    /\ UNCHANGED <<CALL_CONTEXT, referrals, flags, ws_state, el_state, stream_sid,
                   call_sid, stream_ready, hangup_after_audio, suppress_agent_audio,
                   pc_ms, pc_t2e, pc_e2t, timers, nrecv>>
    /\ UNCHANGED <<make_call_vars, webhook_vars, peer_vars>>

\* lines 376-379
HangupClosesAgent ==
    /\ pc_hw = "close"
    /\ pc_hw' = "hangup"
    /\ el_state' = "closed"
    /\ trace' = Append(trace, Event("close", "hangup_watcher", None, el_state, "", EmptyDict))
    /\ UNCHANGED <<CALL_CONTEXT, referrals, flags, ws_state, stream_sid,
                   call_sid, stream_ready, hangup_after_audio, suppress_agent_audio,
                   pc_ms, pc_t2e, pc_e2t, timers, nrecv>>
    /\ UNCHANGED <<make_call_vars, webhook_vars, peer_vars>>

\* lines 389-394.  ok: whether the provider accepts the update.
HangupUpdatesCall(ok) ==
    /\ pc_hw = "hangup"
    /\ pc_hw' = "done"
    /\ trace' = IF TruthyStr(call_sid)
                THEN Append(trace,
                        Event("calls.update", "hangup_watcher", call_sid,
                              IF ok THEN "completed" ELSE "failed", "", EmptyDict))
                ELSE trace
    /\ UNCHANGED <<CALL_CONTEXT, referrals, flags, ws_state, el_state, stream_sid,
                   call_sid, stream_ready, hangup_after_audio, suppress_agent_audio,
                   pc_ms, pc_t2e, pc_e2t, timers, nrecv>>
    /\ UNCHANGED <<make_call_vars, webhook_vars, peer_vars>>

----------------------------------------------------------------------------
(* media_stream (lines 397-407)                                            *)

Tasks == <<pc_t2e, pc_e2t, pc_hw>>

\* line 397: gather returns when the three are done, raises when one raises
GatherEnds ==
    \/ \A i \in 1..3 : Tasks[i] = "done"
    \/ \E i \in 1..3 : Tasks[i] = "raised"

\* lines 220-223, 403-404: the `async with` block is left, which closes the
\* agent session
MediaStreamLeavesWith ==
    /\ pc_ms = "gather"
    /\ GatherEnds
    /\ pc_ms' = "finally"
    /\ el_state' = "closed"
    /\ UNCHANGED <<CALL_CONTEXT, referrals, flags, ws_state, stream_sid,
                   call_sid, stream_ready, hangup_after_audio, suppress_agent_audio,
                   pc_t2e, pc_e2t, pc_hw, timers, nrecv, trace>>
    /\ UNCHANGED <<make_call_vars, webhook_vars, peer_vars>>

\* lines 406-407
MediaStreamFinally ==
    /\ pc_ms = "finally"
    /\ pc_ms' = "closed"
    /\ ws_state' = "closed"
    /\ UNCHANGED <<CALL_CONTEXT, referrals, flags, el_state, stream_sid,
                   call_sid, stream_ready, hangup_after_audio, suppress_agent_audio,
                   pc_t2e, pc_e2t, pc_hw, timers, nrecv, trace>>
    /\ UNCHANGED <<make_call_vars, webhook_vars, peer_vars>>

----------------------------------------------------------------------------

Next ==
    \/ \E f \in CarrierFrames : TwilioMedia(f)
    \/ \E f \in CarrierFrames : TwilioStart(f)
    \/ \E f \in CarrierFrames : TwilioStop(f)
    \/ \E f \in CarrierFrames : TwilioOther(f)
    \/ \E f \in CarrierFrames : TwilioNotJson(f)
    \/ CarrierDisconnects
    \/ TwilioDisconnected
    \/ \E m \in AgentMsgs : AgentIgnored(m)
    \/ \E m \in AgentMsgs : AgentNotJson(m)
    \/ \E m \in AgentMsgs : AgentAudio(m)
    \/ \E m \in AgentMsgs : AgentPing(m)
    \/ \E m \in AgentMsgs : AgentInterruption(m)
    \/ \E m \in AgentMsgs, up \in BOOLEAN : AgentResponse(m, up)
    \/ ElevenLabsDisconnects
    \/ AgentConnectionClosed
    \/ \E i \in TimerIds : DelayedSuppressFires(i)
    \/ \E i \in TimerIds : DelayedSuppressReleases(i)
    \/ HangupSendsEndCall
    \/ HangupClosesAgent
    \/ \E ok \in BOOLEAN : HangupUpdatesCall(ok)
    \/ MediaStreamLeavesWith
    \/ MediaStreamFinally

Spec == Init /\ [][Next]_vars

\* What asyncio's event loop guarantees: a task that can run does run, and a
\* sleep ends.  Nothing is assumed of the carrier or of the agent: either may
\* stay silent.
Fairness ==
    /\ WF_vars(TwilioDisconnected)
    /\ WF_vars(AgentConnectionClosed)
    /\ \A i \in TimerIds : WF_vars(DelayedSuppressFires(i))
    /\ \A i \in TimerIds : WF_vars(DelayedSuppressReleases(i))
    /\ WF_vars(HangupSendsEndCall)
    /\ WF_vars(HangupClosesAgent)
    /\ WF_vars(\E ok \in BOOLEAN : HangupUpdatesCall(ok))
    /\ WF_vars(MediaStreamLeavesWith)
    /\ WF_vars(MediaStreamFinally)

FairSpec == Spec /\ Fairness

----------------------------------------------------------------------------
(* make_call (lines 139-158)                                               *)

\* Requests one run lets /make-call serve.
MaxCalls == 2

\* call.sid of the n-th call the provider creates
CallSid(n) == IF n = 1 THEN "CA1" ELSE IF n = 2 THEN "CA2" ELSE "CA3"

\* The state of one media_stream session, which make_call leaves alone
bridge_vars == <<referrals, flags, ws_state, el_state, stream_sid, call_sid,
                 stream_ready, hangup_after_audio, suppress_agent_audio,
                 pc_ms, pc_t2e, pc_e2t, pc_hw, timers, nrecv, trace>>

\* lines 142-148, 157-158: calls.create returns the call, or raises
MakeCallCreates(r, accepted) ==
    /\ pc_mc = "idle"
    /\ Len(responses) < MaxCalls
    /\ IF accepted
       THEN /\ req' = r
            /\ call' = CallSid(Cardinality(calls) + 1)
            /\ calls' = calls \cup {call'}
            /\ pc_mc' = "created"
            /\ UNCHANGED responses
       ELSE /\ responses' = Append(responses, MakeCallFailure("Unable to create record"))
            /\ UNCHANGED <<req, call, calls, pc_mc>>
    /\ UNCHANGED <<CALL_CONTEXT, bridge_vars, webhook_vars, peer_vars>>

\* lines 150-158: the lookup returns, the variables are stored under call.sid;
\* a request without specialist_type raises KeyError at line 150, which
\* line 157 catches.
MakeCallStores(lookup) ==
    /\ pc_mc = "created"
    /\ IF "specialist_type" \notin DOMAIN req.dynamic_variables
       THEN /\ responses' = Append(responses, MakeCallFailure("'specialist_type'"))
            /\ UNCHANGED CALL_CONTEXT
       ELSE LET times == get_scheduled_dates(req.dynamic_variables["specialist_type"],
                                             lookup)
                stored == Enriched(req.dynamic_variables, times)
            IN  /\ CALL_CONTEXT' = [c \in DOMAIN CALL_CONTEXT \cup {call} |->
                                       IF c = call THEN stored ELSE CALL_CONTEXT[c]]
                /\ responses' = Append(responses, MakeCallSuccess(call))
    /\ pc_mc' = "idle" /\ req' = NoRequest /\ call' = None
    /\ UNCHANGED <<calls, bridge_vars, webhook_vars, peer_vars>>

\* lines 210-227, 397: the carrier connects the media stream of a call the
\* provider placed; media_stream accepts it, connects the agent session and
\* starts its tasks.  ok = FALSE: websockets.connect raises (lines 403-404).
MediaStreamAccepts(ok) ==
    /\ pc_ms = "idle"
    /\ calls # {}
    /\ ws_state' = "open"
    /\ IF ok
       THEN /\ el_state' = "open"
            /\ pc_ms' = "gather"
            /\ pc_t2e' = "run" /\ pc_e2t' = "run" /\ pc_hw' = "wait"
       ELSE /\ pc_ms' = "finally"
            /\ UNCHANGED <<el_state, pc_t2e, pc_e2t, pc_hw>>
    /\ UNCHANGED <<CALL_CONTEXT, referrals, flags, stream_sid, call_sid, stream_ready,
                   hangup_after_audio, suppress_agent_audio, timers, nrecv, trace,
                   make_call_vars, webhook_vars, peer_vars>>

\* No media stream connected yet (before line 210)
NoMediaStream ==
    /\ ws_state = "connecting" /\ el_state = "closed"
    /\ stream_sid = None /\ call_sid = None
    /\ stream_ready = FALSE /\ hangup_after_audio = FALSE
    /\ suppress_agent_audio = FALSE
    /\ pc_ms = "idle" /\ pc_t2e = "new" /\ pc_e2t = "new" /\ pc_hw = "new"
    /\ timers = <<>> /\ nrecv = 0 /\ trace = <<>>

\* The server before any request: no call placed, no media stream connected.
InitMakeCall ==
    /\ CALL_CONTEXT = <<>>
    /\ referrals = ("Jane Doe" :> Date0)
    /\ flags = <<>>
    /\ NoMediaStream
    /\ pc_mc = "idle" /\ req = NoRequest /\ call = None
    /\ calls = {} /\ responses = <<>>
    /\ InitWebhook
    /\ InitPeer

\* line 240, for the media stream of a call the provider placed
StartOfPlacedCall(f) == f.callSid \in calls /\ TwilioStart(f)

\* make_call, and the media stream of a call it placed up to its start frame
MakeCallNext ==
    \/ \E r \in CallRequests, accepted \in BOOLEAN : MakeCallCreates(r, accepted)
    \/ \E lookup \in Lookups : MakeCallStores(lookup)
    \/ \E ok \in BOOLEAN : MediaStreamAccepts(ok)
    \/ \E f \in CarrierFrames : StartOfPlacedCall(f)
    \/ MediaStreamFinally

MakeCallSpec == InitMakeCall /\ [][MakeCallNext]_vars

----------------------------------------------------------------------------
(* Two calls at once: beside the session above, the media_stream session   *)
(* of a second call, which shares CALL_CONTEXT (line 44) with it.  Of the  *)
(* second session the steps that read or write CALL_CONTEXT are kept: its  *)
(* start frame and the agent_response in which an outcome is detected.     *)

\* Frames the second session receives.
MaxPeerFrames == 2

\* <<streamSid, callSid>> of the start frame of the second call: its own call
\* id, or none.
PeerStarts == {<<"MZ3", "CA3">>, <<"MZ3", None>>}

\* The outcomes the agent of the second call utters: Rescheduled = true with
\* a name and no date, which writes agent_result and calls no database
\* helper (lines 335-336, 345-346).
PeerUtterances == {UNameOnly("true", "Parth Joshi")}

\* lines 240-251 in the second session
PeerTwilioStart(st) ==
    /\ ~peer_stream_ready
    /\ peer_nrecv < MaxPeerFrames
    /\ peer_call_sid' = st[2]
    /\ peer_stream_ready' = TRUE
    /\ peer_nrecv' = peer_nrecv + 1
    /\ trace' = Append(trace,
           Event("conversation_initiation_client_data", "peer_t2e", None, "", "",
                 DynamicVariables(ContextOf(CALL_CONTEXT, st[2]))))
    /\ UNCHANGED <<CALL_CONTEXT, referrals, flags, ws_state, el_state, stream_sid,
                   call_sid, stream_ready, hangup_after_audio, suppress_agent_audio,
                   pc_ms, pc_t2e, pc_e2t, pc_hw, timers, nrecv,
                   make_call_vars, webhook_vars>>

\* lines 309-336 in the second session
PeerAgentResponse(text) ==
    /\ peer_stream_ready
    /\ peer_nrecv < MaxPeerFrames
    /\ OutcomeDetected(text)
    /\ OutcomeBranch(ExtractPayload(text)) = "incomplete"
    /\ CALL_CONTEXT' = SaveAgentResult(CALL_CONTEXT, peer_call_sid, ExtractPayload(text))
    /\ peer_nrecv' = peer_nrecv + 1
    /\ UNCHANGED <<bridge_vars, make_call_vars, webhook_vars,
                   peer_call_sid, peer_stream_ready>>

TwoCallNext ==
    \/ Next
    \/ \E st \in PeerStarts : PeerTwilioStart(st)
    \/ \E text \in PeerUtterances : PeerAgentResponse(text)

TwoCallSpec == Init /\ [][TwoCallNext]_vars

----------------------------------------------------------------------------
(* The webhooks router (routers/webhooks.py).  The methods it calls on the  *)
(* database client that services/supabase_client.py does not define        *)
(* (get_call_by_elevenlabs_id, update_call_attempt, reschedule_appointment, *)
(* update_appointment) are modelled after the client's methods of the same *)
(* shape: a lookup by a column, an update by id that returns no row on     *)
(* failure.                                                                *)

\* Webhook requests one run delivers.
MaxDeliveries == 3

Time0 == "2026-01-20T09:00:00Z"
Time1 == "2026-02-01T14:00:00Z"

\* ElevenLabsWebhookPayload (models/schemas.py:411-424), without a transcript
ElevenLabsWebhookPayload(call_id, status, outcome, new_appointment_time) ==
    [call_id |-> call_id, status |-> status, outcome |-> outcome,
     new_appointment_time |-> new_appointment_time, transcript |-> None]

NoPayload == ElevenLabsWebhookPayload(None, None, None, None)

\* <<status, outcome, new_appointment_time>> of the webhooks delivered
Outcomes ==
    { <<"completed", "rescheduled", Time1>>,
      <<"completed", "rescheduled", None>>,
      <<"completed", "declined", None>>,
      <<"no_answer", None, None>> }

\* Webhooks of a call attempt the database knows (el-1) and of one it does not
WebhookPayloads ==
    { ElevenLabsWebhookPayload(c, o[1], o[2], o[3]) : c \in {"el-1", "el-9"}, o \in Outcomes }

\* A row of the call attempts
CallAttempt(id, elevenlabs_call_id, status, outcome, ended_at) ==
    [id |-> id, elevenlabs_call_id |-> elevenlabs_call_id,
     appointment_id |-> "apt-1", patient_id |-> "pat-1",
     status |-> status, outcome |-> outcome, ended_at |-> ended_at,
     transcript |-> None]

NoCallAttempt == CallAttempt(None, None, None, None, 0)

InitCallAttempts == "att-1" :> CallAttempt("att-1", "el-1", "IN_PROGRESS", None, 0)

InitAppointments == "apt-1" :> [scheduled_at |-> Time0, google_event_id |-> None]

\* webhooks.py:88
get_call_by_elevenlabs_id(tbl, call_id) ==
    LET ids == {id \in DOMAIN tbl : tbl[id].elevenlabs_call_id = call_id}
    IN  IF ids = {} THEN NoCallAttempt ELSE tbl[CHOOSE id \in ids : TRUE]

\* lines 119-123, 135: status_map.get(payload.status, COMPLETED)
StatusMap(status) ==
    CASE status = "completed" -> "COMPLETED"
      [] status = "failed"    -> "FAILED"
      [] status = "no_answer" -> "NO_ANSWER"
      [] OTHER                -> "COMPLETED"

\* lines 125-131, 136: outcome_map.get(payload.outcome) if payload.outcome else None
OutcomeMap(outcome) ==
    CASE outcome = "rescheduled"        -> "RESCHEDULED"
      [] outcome = "declined"           -> "DECLINED"
      [] outcome = "voicemail"          -> "VOICEMAIL"
      [] outcome = "callback_requested" -> "CALLBACK_REQUESTED"
      [] outcome = "invalid_number"     -> "INVALID_NUMBER"
      [] OTHER                          -> None

\* webhooks.py:141.  up: whether the database answers.
update_call_attempt(tbl, id, status, outcome, ended_at, up) ==
    IF up /\ id \in DOMAIN tbl
    THEN [tbl EXCEPT ![id].status = status, ![id].outcome = outcome,
                     ![id].ended_at = ended_at]
    ELSE tbl

\* webhooks.py:179-183, 213-216: the appointment afterwards; the event id of
\* the calendar is saved when the calendar made one (cal).
reschedule_appointment(tbl, id, new_datetime, cal) ==
    [tbl EXCEPT ![id].scheduled_at = new_datetime,
                ![id].google_event_id =
                    IF @ = None /\ cal THEN "gcal-1" ELSE @]

\* line 260: call_outcome.replace('_', ' ').title()
FlagTitle(call_outcome) ==
    "Follow-up needed: " \o
        (CASE call_outcome = "declined"    -> "Declined"
           [] call_outcome = "rescheduled" -> "Rescheduled"
           [] call_outcome = "no_answer"   -> "No Answer"
           [] call_outcome = "completed"   -> "Completed"
           [] OTHER                        -> "Failed")

\* lines 76-84: the body does not parse as a payload; 400
HandleInvalidWebhook ==
    /\ Len(deliveries) < MaxDeliveries
    /\ deliveries' = Append(deliveries, [payload |-> NoPayload, response |-> "400"])
    /\ UNCHANGED <<CALL_CONTEXT, bridge_vars, make_call_vars, peer_vars,
                   call_attempts, appointments, background_tasks, clock>>

\* lines 65-103 (the signature check of line 70 always passes,
\* services/elevenlabs_service.py:155-184)
HandleElevenLabsWebhook(payload) ==
    /\ Len(deliveries) < MaxDeliveries
    /\ LET call_attempt == get_call_by_elevenlabs_id(call_attempts, payload.call_id)
       IN  IF call_attempt.id = None
           THEN /\ deliveries' = Append(deliveries,
                       [payload |-> payload, response |-> "Call not found, ignoring"])
                /\ UNCHANGED background_tasks
           ELSE /\ deliveries' = Append(deliveries,
                       [payload |-> payload, response |-> "Webhook received, processing"])
                /\ background_tasks' = Append(background_tasks,
                       [call_attempt |-> call_attempt, payload |-> payload])
    /\ UNCHANGED <<CALL_CONTEXT, bridge_vars, make_call_vars, peer_vars,
                   call_attempts, appointments, clock>>

\* lines 106-161, with handle_successful_reschedule (164-221) and
\* create_follow_up_flag (224-267).  up: the update of the call attempt goes
\* through; ok: the reschedule or the insert of the flag does; cal: the
\* calendar call does.
ProcessCallOutcome(up, ok, cal) ==
    /\ background_tasks # <<>>
    /\ LET task == Head(background_tasks)
           payload == task.payload
           call_attempt == task.call_attempt
           call_outcome == IF payload.outcome # None THEN payload.outcome
                           ELSE payload.status
       IN  /\ clock' = clock + 1
           /\ call_attempts' =
                 update_call_attempt(call_attempts, call_attempt.id,
                                     StatusMap(payload.status), OutcomeMap(payload.outcome),
                                     clock', up)
           /\ IF payload.outcome = "rescheduled" /\ payload.new_appointment_time # None
              THEN /\ trace' = Append(trace,
                          Event("reschedule_appointment", "process_call_outcome",
                                call_attempt.id, call_attempt.appointment_id,
                                payload.new_appointment_time, EmptyDict))
                   /\ appointments' =
                         IF ok THEN reschedule_appointment(appointments,
                                        call_attempt.appointment_id,
                                        payload.new_appointment_time, cal)
                         ELSE appointments               \* lines 185-187: print, return
                   /\ UNCHANGED flags
              ELSE /\ trace' = Append(trace,
                          Event("create_flag", "process_call_outcome",
                                call_attempt.id, call_outcome, "", EmptyDict))
                   /\ flags' = IF ok THEN Append(flags, FlagTitle(call_outcome)) ELSE flags
                   /\ UNCHANGED appointments
    /\ background_tasks' = Tail(background_tasks)
    /\ UNCHANGED <<CALL_CONTEXT, referrals, ws_state, el_state, stream_sid, call_sid,
                   stream_ready, hangup_after_audio, suppress_agent_audio,
                   pc_ms, pc_t2e, pc_e2t, pc_hw, timers, nrecv,
                   make_call_vars, peer_vars, deliveries>>

\* The router with one call attempt in progress and its appointment
InitWebhookSpec ==
    /\ CALL_CONTEXT = <<>>
    /\ referrals = ("Jane Doe" :> Date0)
    /\ flags = <<>>
    /\ NoMediaStream
    /\ pc_mc = "idle" /\ req = NoRequest /\ call = None
    /\ calls = {} /\ responses = <<>>
    /\ call_attempts = InitCallAttempts
    /\ appointments = InitAppointments
    /\ background_tasks = <<>>
    /\ clock = 0
    /\ deliveries = <<>>
    /\ InitPeer

WebhookNext ==
    \/ HandleInvalidWebhook
    \/ \E payload \in WebhookPayloads : HandleElevenLabsWebhook(payload)
    \/ \E up \in BOOLEAN, ok \in BOOLEAN, cal \in BOOLEAN : ProcessCallOutcome(up, ok, cal)

WebhookSpec == InitWebhookSpec /\ [][WebhookNext]_vars

----------------------------------------------------------------------------
(* Properties                                                              *)

IsInit(e)         == e.ev = "conversation_initiation_client_data"
IsChunk(e)        == e.ev = "user_audio_chunk"
IsOutcomeClear(e) == e.ev = "clear" /\ e.by = "delayed_suppress"
IsEndCall(e)      == e.ev = "end_call"
IsAgentClose(e)   == e.ev = "close"
IsCompleted(e)    == e.ev = "calls.update"
IsDbCall(e)       == e.ev \in {"update_scheduled_date", "create_flagged_entry"}

\* Every event of kind Q in the trace has an event of kind P before it.
Precedes(P(_), Q(_)) ==
    \A i \in 1..Len(trace) : Q(trace[i]) => \E j \in 1..(i - 1) : P(trace[j])

\* Some delayed_suppress task has passed its sleep and made its assignment.
TimerFired == \E i \in 1..Len(timers) : timers[i].pc # "sleep"

\* C1: when the outcome-driven shutdown runs, the flag that
\* elevenlabs_to_twilio reads is true by the time the clear is sent, the clear
\* is sent before end_call, end_call before the agent session is closed, and
\* the session is closed before the provider is asked to complete the call.
C1_TerminationOrder ==
    /\ (\E i \in 1..Len(trace) : IsOutcomeClear(trace[i])) => suppress_agent_audio
    /\ Precedes(IsOutcomeClear, IsEndCall)
    /\ Precedes(IsEndCall, IsAgentClose)
    /\ Precedes(IsAgentClose, IsCompleted)

\* C2: once a delayed_suppress task has fired, no step sends a media frame
\* to the carrier any more.
C2_NoMediaAfterSuppression ==
    [][TimerFired => Count("media")' = Count("media")]_vars

\* C3: in one call at most one agent_response leads to a database call
\* (update_scheduled_date or create_flagged_entry).
C3_OutcomeAtMostOnce ==
    Len(SelectSeq(trace, IsDbCall)) <= 1

\* What str() gives, written out for the values that occur in a store.
CoercesTo(v, str) ==
    /\ v.t = "str" => str = v.s
    /\ v = PyInt(12) => str = "12"
    /\ v.t = "dict" /\ DOMAIN v.d = {} => str = "{}"
    /\ v = PyDict([Rescheduled |-> PyBool(TRUE), name |-> PyStrOf("Jane Doe"),
                   scheduled_date |-> PyStrOf(Date1)])
         => str = "{'Rescheduled': True, 'name': 'Jane Doe', "
                    \o "'scheduled_date': '2026-02-07 11:00:00+00:00'}"
    /\ v = PyDict([Rescheduled |-> PyBool(FALSE), name |-> PyStrOf("Jane Doe")])
         => str = "{'Rescheduled': False, 'name': 'Jane Doe'}"

\* C4: a start frame with call id C, handled while the agent session is
\* open, sends exactly one message, conversation_initiation_client_data,
\* whose dynamic_variables have the keys stored under C at that moment and
\* the str() of their values; with C absent from CALL_CONTEXT the message is
\* sent all the same, with an empty map.
C4_InitCarriesContext ==
    [][\A f \in CarrierFrames :
          TwilioStart(f) /\ el_state = "open" =>
             /\ Len(trace') = Len(trace) + 1
             /\ SubSeq(trace', 1, Len(trace)) = trace
             /\ LET e == trace'[Len(trace')]
                IN  /\ IsInit(e)
                    /\ IF f.callSid \in DOMAIN CALL_CONTEXT
                       THEN /\ DOMAIN e.dyn = DOMAIN CALL_CONTEXT[f.callSid]
                            /\ \A k \in DOMAIN e.dyn :
                                  CoercesTo(CALL_CONTEXT[f.callSid][k], e.dyn[k])
                       ELSE e.dyn = EmptyDict]_vars

\* C4 witness: one start frame found its call in the store, with a string and
\* a number under it, and another did not.
C4_Witness ==
    /\ \E i \in 1..Len(trace) :
          /\ IsInit(trace[i])
          /\ trace[i].dyn = [specialist_type |-> "Cardiology", attempt |-> "12",
                              unavailable_times |-> "false"]
    /\ \E i \in 1..Len(trace) : IsInit(trace[i]) /\ trace[i].dyn = EmptyDict

\* C5: no user_audio_chunk is sent to the agent before a
\* conversation_initiation_client_data message has been sent to it.
C5_InitBeforeAudio ==
    Precedes(IsInit, IsChunk)

\* C6: a step that receives a ping with event id E sends exactly one message,
\* the pong with event id E, before the loop reads anything else (so before
\* any later audio is forwarded); no other step sends a pong.
C6_PingPong ==
    [][/\ \A m \in AgentMsgs :
             AgentPing(m) =>
                trace' = Append(trace, [ev |-> "pong", by |-> "e2t", sid |-> None,
                                        a |-> m.arg, b |-> "", dyn |-> EmptyDict])
       /\ (\A m \in AgentMsgs : ~AgentPing(m)) => Count("pong")' = Count("pong")]_vars

\* C6 witness: a ping with id "2" was answered and an audio event received
\* after it was forwarded.
C6_Witness ==
    \E i \in 1..Len(trace) :
       /\ trace[i].ev = "pong" /\ trace[i].a = "2"
       /\ \E j \in (i + 1)..Len(trace) : trace[j].ev = "media"

\* C7: a media frame whose track is absent or "inbound" is forwarded to the
\* open agent session as exactly one user_audio_chunk with its payload; a
\* media frame with any other track sends nothing and leaves the loop
\* running.
C7_TrackFilter ==
    [][\A f \in CarrierFrames :
          TwilioMedia(f) =>
             IF f.track = None \/ f.track = "inbound"
             THEN el_state = "open" =>
                     trace' = Append(trace, [ev |-> "user_audio_chunk", by |-> "t2e",
                                             sid |-> None, a |-> f.payload, b |-> "",
                                             dyn |-> EmptyDict])
             ELSE trace' = trace /\ pc_t2e' = "run"]_vars

\* C7 witness: a chunk has been forwarded and the loop still reads frames.
C7_Witness ==
    /\ \E i \in 1..Len(trace) : IsChunk(trace[i]) /\ trace[i].a = "caller-audio"
    /\ pc_t2e = "run" /\ ws_state = "open"

\* The outcome of an utterance has Rescheduled = b and the name n.
OutcomeHas(text, b, n) ==
    LET payload == ExtractPayload(text)
    IN  /\ OutcomeDetected(text)
        /\ "Rescheduled" \in DOMAIN payload /\ payload["Rescheduled"] = PyBool(b)
        /\ "name" \in DOMAIN payload /\ payload["name"] = PyStrOf(n)

\* C8: the step that handles an agent_response whose outcome has
\* Rescheduled = false and a name N calls create_flagged_entry(N) once and
\* nothing else: no update_scheduled_date.
C8_DeclinedIsFlagged ==
    [][\A m \in AgentMsgs, up \in BOOLEAN, n \in Names :
          AgentResponse(m, up) /\ OutcomeHas(m.text, FALSE, n) =>
             /\ trace' = Append(trace, [ev |-> "create_flagged_entry", by |-> "e2t",
                                        sid |-> None, a |-> n, b |-> "",
                                        dyn |-> EmptyDict])
             /\ referrals' = referrals]_vars

\* C8 witness: create_flagged_entry("Jane Doe") was called and inserted its
\* flag, and update_scheduled_date was not called.
C8_Witness ==
    /\ \E i \in 1..Len(trace) :
          trace[i].ev = "create_flagged_entry" /\ trace[i].a = "Jane Doe"
    /\ flags = <<"Flagged: Jane Doe">>
    /\ Count("update_scheduled_date") = 0

\* The utterances '{"Rescheduled": true, "name": N, "scheduled_date": D}',
\* true in either case.
CompleteAccepted(n, d) == {UComplete("true", n, d), UComplete("TRUE", n, d)}

\* C9: the step that handles an agent_response with Rescheduled = true, a
\* name N and a scheduled_date D calls update_scheduled_date(N, D) once,
\* calls nothing else, leaves the flags alone, and stores
\* {Rescheduled: True, name: N, scheduled_date: D} as agent_result of the
\* call's CALL_CONTEXT entry, whose other keys keep their values.
C9_AcceptedIsRescheduled ==
    [][\A m \in AgentMsgs, up \in BOOLEAN, n \in Names, d \in {Date1} :
          AgentResponse(m, up) /\ m.text \in CompleteAccepted(n, d) =>
             /\ trace' = Append(trace, [ev |-> "update_scheduled_date", by |-> "e2t",
                                        sid |-> None, a |-> n, b |-> d,
                                        dyn |-> EmptyDict])
             /\ flags' = flags
             /\ call_sid \in DOMAIN CALL_CONTEXT'
             /\ LET old == IF call_sid \in DOMAIN CALL_CONTEXT
                           THEN CALL_CONTEXT[call_sid] ELSE EmptyDict
                    new == CALL_CONTEXT'[call_sid]
                IN  /\ DOMAIN new = DOMAIN old \cup {"agent_result"}
                    /\ new["agent_result"] =
                          PyDict([Rescheduled |-> PyBool(TRUE), name |-> PyStrOf(n),
                                  scheduled_date |-> PyStrOf(d)])
                    /\ \A k \in DOMAIN old \ {"agent_result"} : new[k] = old[k]]_vars

\* C9 witness: update_scheduled_date("Jane Doe", D) was called, the referral
\* carries the new date, and the entry of CA1 has its agent_result beside the
\* variables make_call stored.
C9_Witness ==
    /\ \E i \in 1..Len(trace) :
          /\ trace[i].ev = "update_scheduled_date"
          /\ trace[i].a = "Jane Doe" /\ trace[i].b = Date1
    /\ referrals["Jane Doe"] = Date1
    /\ Count("create_flagged_entry") = 0
    /\ "CA1" \in DOMAIN CALL_CONTEXT
    /\ DOMAIN CALL_CONTEXT["CA1"] =
          {"specialist_type", "attempt", "unavailable_times", "agent_result"}
    /\ CALL_CONTEXT["CA1"]["agent_result"].d["scheduled_date"] = PyStrOf(Date1)

\* The outcome of an utterance has Rescheduled = true and lacks the name or
\* the scheduled_date.
OutcomeIncomplete(text) ==
    LET payload == ExtractPayload(text)
    IN  /\ OutcomeDetected(text)
        /\ "Rescheduled" \in DOMAIN payload /\ payload["Rescheduled"] = PyBool(TRUE)
        /\ ("name" \notin DOMAIN payload \/ "scheduled_date" \notin DOMAIN payload)

\* C10: the step that handles an agent_response whose outcome has
\* Rescheduled = true but no name or no scheduled_date calls neither
\* update_scheduled_date nor create_flagged_entry and leaves both tables as
\* they are.
C10_IncompleteWritesNothing ==
    [][\A m \in AgentMsgs, up \in BOOLEAN :
          AgentResponse(m, up) /\ OutcomeIncomplete(m.text) =>
             /\ trace' = trace
             /\ referrals' = referrals
             /\ flags' = flags]_vars

\* C10 witness: an outcome with Rescheduled = true and a name but no date is
\* stored as agent_result, and no database helper has been called.
C10_Witness ==
    /\ "CA1" \in DOMAIN CALL_CONTEXT
    /\ "agent_result" \in DOMAIN CALL_CONTEXT["CA1"]
    /\ CALL_CONTEXT["CA1"]["agent_result"] =
          PyDict([Rescheduled |-> PyBool(TRUE), name |-> PyStrOf("Jane Doe")])
    /\ Len(SelectSeq(trace, IsDbCall)) = 0
    /\ Len(timers) = 1

\* The reschedule write of an outcome goes through: the outcome is complete
\* and accepted, the database answers and a referral carries the name.
RescheduleSucceeds(text, up) ==
    LET payload == ExtractPayload(text)
    IN  /\ OutcomeBranch(payload) = "reschedule"
        /\ up
        /\ payload["name"].s \in DOMAIN referrals

\* C11: the step that handles an agent_response in which an outcome is
\* detected and no reschedule write succeeds (the outcome is declined or
\* incomplete, or the write fails or matches no referral) calls
\* create_flagged_entry.
C11_FailedRescheduleIsFlagged ==
    [][\A m \in AgentMsgs, up \in BOOLEAN :
          /\ AgentResponse(m, up)
          /\ OutcomeDetected(m.text)
          /\ ~RescheduleSucceeds(m.text, up)
          => Count("create_flagged_entry")' = Count("create_flagged_entry") + 1]_vars

\* C12: the step that handles an interruption while the carrier socket is
\* open sends one clear frame with the streamSid of the session's start
\* frame and nothing else, and leaves the suppression flag, the hangup gate,
\* the watcher, the timers and both connections as they are.
C12_InterruptionClears ==
    [][\A m \in AgentMsgs :
          AgentInterruption(m) /\ ws_state = "open" =>
             /\ stream_sid # None
             /\ trace' = Append(trace, [ev |-> "clear", by |-> "e2t", sid |-> stream_sid,
                                        a |-> "", b |-> "", dyn |-> EmptyDict])
             /\ UNCHANGED <<suppress_agent_audio, hangup_after_audio, pc_hw, pc_e2t,
                            timers, el_state, ws_state>>]_vars

\* C12 witness: an interruption of the session started as MZ1 was answered
\* with a clear for MZ1, and no shutdown is under way.
C12_Witness ==
    /\ \E i \in 1..Len(trace) :
          trace[i].ev = "clear" /\ trace[i].by = "e2t" /\ trace[i].sid = "MZ1"
    /\ ~hangup_after_audio /\ ~suppress_agent_audio
    /\ pc_hw = "wait" /\ pc_e2t = "run" /\ timers = <<>>
    /\ el_state = "open" /\ ws_state = "open"

\* No outcome has been detected: no agent_result stored, no timer created.
NoOutcomeDetected ==
    /\ timers = <<>>
    /\ \A c \in DOMAIN CALL_CONTEXT : "agent_result" \notin DOMAIN CALL_CONTEXT[c]

\* The call is Closed: media_stream has returned, its three tasks have
\* exited and both connections are closed.
Closed ==
    /\ pc_ms = "closed"
    /\ \A i \in 1..3 : Tasks[i] \in {"done", "raised"}
    /\ el_state = "closed"
    /\ ws_state = "closed"

\* The carrier-to-agent loop of a started call has ended on a stop frame or
\* a dropped connection, before any outcome, while media_stream gathers its
\* tasks (so it is the carrier that ended it).
StoppedBeforeOutcome ==
    /\ pc_ms = "gather"
    /\ stream_ready
    /\ pc_t2e = "done"
    /\ NoOutcomeDetected

\* C13: once the carrier has sent stop (or dropped its connection) before
\* any outcome was detected, the call eventually is Closed, without any
\* reschedule write or flag creation.
C13_StopLeadsToClosed ==
    StoppedBeforeOutcome ~> (Closed /\ Len(SelectSeq(trace, IsDbCall)) = 0)

\* The agent session is closed while media_stream still gathers its tasks
\* and the watcher has not begun the shutdown: the agent closed it.
AgentClosedUnexpectedly ==
    /\ pc_ms = "gather"
    /\ el_state = "closed"
    /\ pc_hw = "wait"

\* C14: once the agent session's connection has closed unexpectedly, the
\* call eventually is Closed: the three tasks exited, the carrier socket
\* closed.
C14_AgentCloseLeadsToClosed ==
    AgentClosedUnexpectedly ~> Closed

\* C15: a request whose call the provider accepted ends with the caller's
\* dynamic variables stored under call.sid and with {success: True,
\* call_sid}, whatever the enrichment met.
C15_AcceptedCallIsStored ==
    [][pc_mc = "created" /\ pc_mc' = "idle" =>
          /\ call \in DOMAIN CALL_CONTEXT'
          /\ \A k \in DOMAIN req.dynamic_variables \ {"unavailable_times"} :
                /\ k \in DOMAIN CALL_CONTEXT'[call]
                /\ CALL_CONTEXT'[call][k] = req.dynamic_variables[k]
          /\ responses' = Append(responses, [success |-> TRUE, call_sid |-> call,
                                              error |-> ""])]_vars

\* C16: when the bridge reads the context on the start frame of a call that
\* make_call is still processing, the enriched entry of that call is in
\* CALL_CONTEXT.
C16_StoredBeforeStart ==
    [][\A f \in CarrierFrames :
          StartOfPlacedCall(f) /\ f.callSid = call =>
             /\ call \in DOMAIN CALL_CONTEXT
             /\ "unavailable_times" \in DOMAIN CALL_CONTEXT[call]]_vars

\* C17: when the provider rejects the call placement, make_call returns
\* {success: False, error} with an error text, serves the next request, and
\* leaves CALL_CONTEXT and the provider's calls as they were.
C17_RejectedCallFails ==
    [][\A r \in CallRequests :
          MakeCallCreates(r, FALSE) =>
             /\ Len(responses') = Len(responses) + 1
             /\ LET result == responses'[Len(responses')]
                IN  /\ result.success = FALSE
                    /\ result.call_sid = None
                    /\ result.error # ""
             /\ pc_mc' = "idle"
             /\ CALL_CONTEXT' = CALL_CONTEXT
             /\ calls' = calls]_vars

\* C17 witness: a first request was accepted and stored, a second one was
\* rejected, and the store holds the first call only.
C17_Witness ==
    /\ Len(responses) = 2
    /\ responses[1].success /\ responses[1].call_sid = "CA1"
    /\ ~responses[2].success /\ responses[2].error = "Unable to create record"
    /\ DOMAIN CALL_CONTEXT = {"CA1"}
    /\ pc_mc = "idle"

\* C18: a frame that is not JSON, or whose kind no branch names, is dropped
\* on either channel: the step that receives it sends nothing and leaves the
\* loops, the watcher, media_stream and both connections as they are.
C18_NoiseIsDropped ==
    [][/\ \A f \in CarrierFrames :
             TwilioNotJson(f) \/ TwilioOther(f) =>
                UNCHANGED <<pc_t2e, pc_e2t, pc_hw, pc_ms, trace, el_state, ws_state>>
       /\ \A m \in AgentMsgs :
             AgentNotJson(m) \/ AgentIgnored(m) =>
                UNCHANGED <<pc_t2e, pc_e2t, pc_hw, pc_ms, trace, el_state, ws_state>>]_vars

\* C19: with the agent session already closed when the hangup gate opens,
\* the watcher's end_call sends nothing and its close changes nothing, no
\* exception leaves the watcher, each of its steps is followed by the next,
\* and its last step, for a call with a callSid, asks the provider to
\* complete that call.
C19_ClosedSessionTolerated ==
    /\ [](pc_hw # "raised")
    /\ [](pc_hw = "close" => ENABLED HangupClosesAgent)
    /\ [](pc_hw = "hangup" => ENABLED (\E ok \in BOOLEAN : HangupUpdatesCall(ok)))
    /\ [][/\ HangupSendsEndCall /\ el_state = "closed" =>
                trace' = trace /\ pc_hw' = "close"
          /\ pc_hw = "hangup" /\ pc_hw' = "done" /\ call_sid # None =>
                /\ Len(trace') = Len(trace) + 1
                /\ IsCompleted(trace'[Len(trace')])
                /\ trace'[Len(trace')].sid = call_sid
          /\ HangupClosesAgent /\ el_state = "closed" =>
                /\ el_state' = "closed" /\ pc_hw' = "hangup"
                /\ Count("end_call")' = Count("end_call")]_vars

\* C19 witness: the agent closed the session first; the watcher finished
\* without having sent end_call, closed a session that was closed already,
\* and asked the provider to complete the call CA1.
C19_Witness ==
    /\ pc_hw = "done"
    /\ Count("end_call") = 0
    /\ \E i \in 1..Len(trace) : IsAgentClose(trace[i]) /\ trace[i].a = "closed"
    /\ \E i \in 1..Len(trace) :
          IsCompleted(trace[i]) /\ trace[i].sid = "CA1" /\ trace[i].a = "completed"

\* Every webhook delivered so far is the same webhook, of a call attempt the
\* database knows.
SameWebhookDelivered ==
    /\ \A i, j \in 1..Len(deliveries) : deliveries[i].payload = deliveries[j].payload
    /\ \A i \in 1..Len(deliveries) : deliveries[i].payload.call_id = "el-1"

\* C20: however often one webhook of a known call attempt is delivered, at
\* most one follow-up flag is stored and at most one reschedule is applied.
C20_WebhookIdempotent ==
    SameWebhookDelivered =>
       /\ Len(flags) <= 1
       /\ Count("reschedule_appointment") <= 1

\* C21: stream_sid and call_sid are unset until the first start frame and,
\* once a start frame has set them, no step changes either of them.
C21_SidsAssignedOnce ==
    /\ [](~stream_ready => stream_sid = None /\ call_sid = None)
    /\ [][stream_ready => stream_sid' = stream_sid /\ call_sid' = call_sid]_vars

\* The outcome of an utterance has no true Rescheduled and no name.
OutcomeUnnamedDecline(text) ==
    LET payload == ExtractPayload(text)
    IN  /\ OutcomeDetected(text)
        /\ ~Truthy(DictGet(payload, "Rescheduled"))
        /\ "name" \notin DOMAIN payload

\* C22: the step that handles an agent_response whose outcome has Rescheduled
\* false or absent and no name calls create_flagged_entry, leaves the
\* agent-to-carrier loop running and creates the delayed_suppress task.
C22_UnnamedDeclineIsFlagged ==
    [][\A m \in AgentMsgs, up \in BOOLEAN :
          AgentResponse(m, up) /\ OutcomeUnnamedDecline(m.text) =>
             /\ Count("create_flagged_entry")' = Count("create_flagged_entry") + 1
             /\ pc_e2t' = "run"
             /\ Len(timers') = Len(timers) + 1]_vars

\* An outcome has been detected and its delayed_suppress task created.
OutcomeArmed == timers # <<>>

\* C23: once an outcome has been detected and its delayed_suppress task
\* created, the hangup gate eventually is released, the agent session closed
\* and, for a call with a callSid, the provider asked to complete the call.
C23_OutcomeLeadsToHangup ==
    OutcomeArmed ~>
       /\ hangup_after_audio
       /\ el_state = "closed"
       /\ TruthyStr(call_sid) => Count("calls.update") >= 1

\* C24: media_stream leaves the `async with` block (closing the agent
\* session) and closes the carrier socket only when its three tasks have
\* exited, each by returning or by raising.
C24_ReleasedAfterTasksExit ==
    pc_ms \in {"finally", "closed"} =>
       \A i \in 1..3 : Tasks[i] \in {"done", "raised"}

\* A step leaves the CALL_CONTEXT entry of call id c as it is: not created,
\* not changed.
EntryUntouched(c) ==
    /\ c \in DOMAIN CALL_CONTEXT' <=> c \in DOMAIN CALL_CONTEXT
    /\ ContextOf(CALL_CONTEXT', c) = ContextOf(CALL_CONTEXT, c)

\* C25: with two sessions started, no step of one session creates or changes
\* the CALL_CONTEXT entry the other session uses, the entry under its
\* call_sid, also when a start frame carried no callSid.
C25_OwnEntryOnly ==
    [][stream_ready /\ peer_stream_ready =>
          /\ peer_nrecv' = peer_nrecv => EntryUntouched(peer_call_sid)
          /\ peer_nrecv' # peer_nrecv => EntryUntouched(call_sid)]_vars

\* State Suppressing: an outcome has been detected and no delayed_suppress
\* task has ended its sleep yet.
Suppressing ==
    /\ timers # <<>>
    /\ \A i \in 1..Len(timers) : timers[i].pc = "sleep"

\* C26: while Suppressing, the flag elevenlabs_to_twilio reads is false and
\* the hangup gate closed, delayed_suppress has sent no clear and the watcher
\* has done nothing; an audio event the loop receives then, with the carrier
\* socket open, is not dropped but forwarded as one media frame with its
\* audio.
C26_NoSuppressionDuringDelay ==
    /\ [](Suppressing =>
            /\ ~suppress_agent_audio
            /\ ~hangup_after_audio
            /\ pc_hw = "wait"
            /\ \A i \in 1..Len(trace) :
                  ~IsOutcomeClear(trace[i]) /\ ~IsEndCall(trace[i])
                     /\ ~IsAgentClose(trace[i]) /\ ~IsCompleted(trace[i]))
    /\ [](Suppressing /\ E2TReceives /\ ws_state = "open" =>
            ENABLED (\E m \in AgentMsgs :
                        AgentAudio(m) /\ Count("media")' = Count("media") + 1))
    /\ [][\A m \in AgentMsgs :
             Suppressing /\ AgentAudio(m) /\ ws_state = "open" =>
                trace' = Append(trace, [ev |-> "media", by |-> "e2t", sid |-> stream_sid,
                                        a |-> m.arg, b |-> "", dyn |-> EmptyDict])]_vars

\* C26 witness: after the outcome was detected an audio event was forwarded,
\* and the delayed_suppress task still sleeps.
C26_Witness ==
    /\ Suppressing
    /\ \E i \in 1..Len(trace) :
          /\ IsDbCall(trace[i])
          /\ \E j \in (i + 1)..Len(trace) :
                trace[j].ev = "media" /\ trace[j].a = "agent-audio"

\* C27: an agent_result stored under a call id is never changed by a later
\* step.
C27_AgentResultSetOnce ==
    [][\A c \in DOMAIN CALL_CONTEXT :
          "agent_result" \in DOMAIN CALL_CONTEXT[c] =>
             /\ c \in DOMAIN CALL_CONTEXT'
             /\ "agent_result" \in DOMAIN CALL_CONTEXT'[c]
             /\ CALL_CONTEXT'[c]["agent_result"] = CALL_CONTEXT[c]["agent_result"]]_vars

\* C28: the stream_ready gate is open only when a
\* conversation_initiation_client_data message has been sent to the agent.
C28_GateAfterInit ==
    stream_ready => Count("conversation_initiation_client_data") >= 1

\* C29: a step that sends a media or a clear frame to the carrier is taken
\* after a start frame, and the frame carries the stream_sid of the session,
\* which is not None.
C29_FramesCarryStreamSid ==
    [][Len(trace') > Len(trace) /\ trace'[Len(trace')].ev \in {"media", "clear"} =>
          /\ stream_ready
          /\ stream_sid # None
          /\ trace'[Len(trace')].sid = stream_sid]_vars

\* C29 witness: agent audio was forwarded and delayed_suppress sent its
\* clear, both with the streamSid MZ1 of the start frame.
C29_Witness ==
    /\ \E i \in 1..Len(trace) : trace[i].ev = "media" /\ trace[i].sid = "MZ1"
    /\ \E i \in 1..Len(trace) : IsOutcomeClear(trace[i]) /\ trace[i].sid = "MZ1"

\* The watcher has closed the agent session (line 377).
WatcherClosedAgent == \E i \in 1..Len(trace) : IsAgentClose(trace[i])

\* C30: once the watcher has closed the agent session, the carrier-to-agent
\* loop takes no step that sends to it: it forwards no media frame and
\* handles no start frame.
C30_NoSendAfterWatcherClose ==
    [][\A f \in CarrierFrames :
          WatcherClosedAgent =>
             /\ ~(TwilioMedia(f) /\ ForwardsTrack(f.track))
             /\ ~TwilioStart(f)]_vars

====
